---- MODULE Spec2Model ----
(***************************************************************************)
(* State-machine model of the task-manager MCP server (src/mcp_server.py). *)
(* Python strings are sequences of one-character strings, dicts are        *)
(* insertion-ordered sequences of [key, val] entries, and a task record is *)
(* a TLA+ record whose domain is the set of keys the Python dict holds.    *)
(* Strings the code only compares for equality (tool names, priorities,    *)
(* exception classes and their message templates) stay TLA+ strings.       *)
(***************************************************************************)
EXTENDS Integers, Sequences, FiniteSets, TLC

\* ------------------------------------------------------------------------
\* Bounds of the model
\* ------------------------------------------------------------------------
\* create_task is only offered while task_counter is below this bound
MaxCounter == 2
\* the wall clock read by datetime.now() stops advancing at this value
MaxClock == 1
\* the hamza-tasks list stops growing at this length
MaxTasks == 3
\* the number of connections open to the HTTP binding at the same time
NumConns == 2
\* the id counter stops at this value where the order of the store is studied
MaxOrder == 3

\* ------------------------------------------------------------------------
\* Python strings
\* ------------------------------------------------------------------------
EmptyStr == << >>

UpperChars == <<"A","B","C","D","E","F","G","H","I","J","K","L","M",
                "N","O","P","Q","R","S","T","U","V","W","X","Y","Z">>

LowerChars == <<"a","b","c","d","e","f","g","h","i","j","k","l","m",
                "n","o","p","q","r","s","t","u","v","w","x","y","z">>

DigitChars == <<"0","1","2","3","4","5","6","7","8","9">>

WhitespaceChars == {" ", "\t", "\n", "\r"}

\* str.lower() on one character
LowerChar(c) ==
    IF \E i \in DOMAIN UpperChars : UpperChars[i] = c
    THEN LowerChars[CHOOSE i \in DOMAIN UpperChars : UpperChars[i] = c]
    ELSE c

\* str.lower()
Lower(s) == [i \in DOMAIN s |-> LowerChar(s[i])]

\* s.startswith(p)
StartsWith(s, p) ==
    /\ Len(p) <= Len(s)
    /\ SubSeq(s, 1, Len(p)) = p

\* the 1-based positions at which sub occurs in s
Occurrences(s, sub) ==
    {i \in 1..(Len(s) - Len(sub) + 1) : SubSeq(s, i, i + Len(sub) - 1) = sub}

\* the Python expression "sub in s"
Contains(s, sub) == Len(sub) = 0 \/ Occurrences(s, sub) # {}

SetMin(S) == CHOOSE m \in S : \A n \in S : m <= n

\* s.split(sep) for a non-empty separator: left to right, non-overlapping
RECURSIVE Split(_, _)
Split(s, sep) ==
    IF Occurrences(s, sep) = {}
    THEN <<s>>
    ELSE LET i == SetMin(Occurrences(s, sep))
         IN  <<SubSeq(s, 1, i - 1)>> \o Split(SubSeq(s, i + Len(sep), Len(s)), sep)

\* s.strip()
RECURSIVE Strip(_)
Strip(s) ==
    IF s = EmptyStr THEN s
    ELSE IF s[1] \in WhitespaceChars THEN Strip(Tail(s))
    ELSE IF s[Len(s)] \in WhitespaceChars THEN Strip(SubSeq(s, 1, Len(s) - 1))
    ELSE s

IsDigit(c) == \E i \in DOMAIN DigitChars : DigitChars[i] = c

DigitVal(c) == (CHOOSE i \in DOMAIN DigitChars : DigitChars[i] = c) - 1

\* value of a digit string in which single underscores may separate digits
RECURSIVE DigitsVal(_, _)
DigitsVal(s, acc) ==
    IF s = EmptyStr THEN acc
    ELSE IF s[1] = "_" THEN DigitsVal(Tail(s), acc)
    ELSE DigitsVal(Tail(s), 10 * acc + DigitVal(s[1]))

\* the body of an integer literal accepted by int(): digits, with single
\* underscores only between digits
IsIntBody(s) ==
    /\ s # EmptyStr
    /\ IsDigit(s[1])
    /\ IsDigit(s[Len(s)])
    /\ \A i \in DOMAIN s : IsDigit(s[i]) \/ s[i] = "_"
    /\ \A i \in 1..(Len(s) - 1) : ~(s[i] = "_" /\ s[i + 1] = "_")

\* int(s) for a str: [ok |-> TRUE, val |-> n], or ok = FALSE for ValueError
StrToInt(s) ==
    LET t    == Strip(s)
        sign == IF t # EmptyStr /\ t[1] \in {"+", "-"} THEN t[1] ELSE ""
        body == IF sign = "" THEN t ELSE Tail(t)
    IN  IF IsIntBody(body)
        THEN [ok |-> TRUE,
              val |-> IF sign = "-" THEN 0 - DigitsVal(body, 0) ELSE DigitsVal(body, 0)]
        ELSE [ok |-> FALSE, val |-> 0]

\* str(n) for a non-negative int (f-string formatting of a task id)
RECURSIVE IntToStr(_)
IntToStr(n) ==
    IF n < 0 THEN <<"-">> \o IntToStr(0 - n)
    ELSE IF n < 10 THEN <<DigitChars[n + 1]>>
    ELSE IntToStr(n \div 10) \o <<DigitChars[(n % 10) + 1]>>

\* a value on the wire: a JSON number (an int here) or a JSON string
IntVal(n) == [type |-> "int", v |-> n]

StrVal(s) == [type |-> "str", v |-> s]

\* int(x) for a wire value
PyInt(x) ==
    IF x.type = "int" THEN [ok |-> TRUE, val |-> x.v] ELSE StrToInt(x.v)

\* ------------------------------------------------------------------------
\* Python dicts (insertion ordered)
\* ------------------------------------------------------------------------
EmptyDict == << >>

DictKeys(d) == {d[i].key : i \in DOMAIN d}

DictIndex(d, k) == CHOOSE i \in DOMAIN d : d[i].key = k

\* d[k]
DictGet(d, k) == d[DictIndex(d, k)].val

\* d[k] = v
DictSet(d, k, v) ==
    IF k \in DictKeys(d)
    THEN [d EXCEPT ![DictIndex(d, k)] = [key |-> k, val |-> v]]
    ELSE Append(d, [key |-> k, val |-> v])

\* a removal that fills the hole with the last entry
DictPopSwap(d, k) ==
    LET i == DictIndex(d, k)
        n == Len(d)
    IN  IF i = n
        THEN SubSeq(d, 1, n - 1)
        ELSE [j \in 1..(n - 1) |-> IF j = i THEN d[n] ELSE d[j]]

\* d.pop(k) for a key that is present: the remaining dict
DictPop(d, k) == SelectSeq(d, LAMBDA e : e.key # k)

\* list(d.values())
DictValues(d) == [i \in DOMAIN d |-> d[i].val]

\* record r with field k set to v (r[k] = v on a Python dict used as a record)
FieldSet(r, k, v) == [f \in DOMAIN r \cup {k} |-> IF f = k THEN v ELSE r[f]]

\* arguments.get(k, default)
ArgGet(arguments, k, default) ==
    IF k \in DOMAIN arguments THEN arguments[k] ELSE default

\* ------------------------------------------------------------------------
\* State
\* ------------------------------------------------------------------------
VARIABLES
    tasks,         \* the module-level dict: id -> task record
    task_counter,  \* the module-level id counter
    clock,         \* the value datetime.now() returns
    result,        \* the last request and what its handler returned or raised
    pre,           \* history: tasks, task_counter and clock when that handler was entered
    issued,        \* history: the ids stored by create_task, in order
    deleted        \* history: the ids removed by delete_task

\* the HTTP binding (src/mcp_server_http.py) is a second process with its
\* own globals, serving several connections from one event loop
VARIABLES
    http_tasks,         \* the module-level dict of mcp_server_http.py
    http_task_counter,  \* its id counter
    http_result,        \* the last request to it and the outcome
    conns,              \* per connection: the request in flight and the handler's position
    running,            \* the connection whose handler holds the event loop, or 0
    received            \* history: the ids returned to create_task requests, in order

http_vars == <<http_tasks, http_task_counter, http_result>>

loop_vars == <<conns, running, received>>

VARIABLES
    hamza_tasks,   \* hamza_mcp.py's module-level list of tasks
    hamza_result,  \* the last request to the hamza-tasks server and its return
    hamza_pre      \* hamza_tasks as that request's handler found it
hamza_vars == <<hamza_tasks, hamza_result, hamza_pre>>
vars == <<tasks, task_counter, clock, result, pre, issued, deleted,
          http_vars, loop_vars, hamza_vars>>

\* the globals and the time as a handler finds them on entry
Snapshot == [tasks |-> tasks, task_counter |-> task_counter, clock |-> clock]

\* datetime.now().isoformat()
Now == clock

\* a handler's return value f"{headline}\n\n{json.dumps(payload, indent=2)}"
TextResult(headline, payload) ==
    [kind |-> "text", headline |-> headline, json |-> payload]

\* a handler's return value f"{headline}"
PlainText(headline) == [kind |-> "text", headline |-> headline]

\* a handler's return value json.dumps(payload, indent=2)
JsonText(payload) == [kind |-> "text", json |-> payload]

CreatedText == <<"T","a","s","k"," ","c","r","e","a","t","e","d"," ","s","u","c","c","e","s","s","f","u","l","l","y","!">>

\* f"Task {task_id} not found"
NotFoundText(task_id) ==
    <<"T","a","s","k"," ">> \o IntToStr(task_id) \o <<" ","n","o","t"," ","f","o","u","n","d">>

\* f"Task {task_id} marked as completed!"
CompletedText(task_id) ==
    <<"T","a","s","k"," ">> \o IntToStr(task_id)
    \o <<" ","m","a","r","k","e","d"," ","a","s"," ","c","o","m","p","l","e","t","e","d","!">>

\* f"Task {task_id} deleted successfully!"
DeletedText(task_id) ==
    <<"T","a","s","k"," ">> \o IntToStr(task_id)
    \o <<" ","d","e","l","e","t","e","d"," ","s","u","c","c","e","s","s","f","u","l","l","y","!">>

\* f"Found {len(results)} task(s) matching '{keyword}':"
FoundText(n, keyword) ==
    <<"F","o","u","n","d"," ">> \o IntToStr(n)
    \o <<" ","t","a","s","k","(","s",")"," ","m","a","t","c","h","i","n","g"," ","'">>
    \o keyword \o <<"'",":">>

\* an exception leaving a handler
Fault(exc, msg) == [kind |-> "fault", exc |-> exc, msg |-> msg]

\* what one run of the call_tool body does to the globals, and its outcome
Outcome(newTasks, newCounter, ret) ==
    [tasks |-> newTasks, task_counter |-> newCounter, ret |-> ret]

\* ------------------------------------------------------------------------
\* call_tool
\* ------------------------------------------------------------------------
\* create_task that ignores the priority argument
create_task_default_priority(arguments) ==
    LET task_id == task_counter + 1
    IN  IF "title" \notin DOMAIN arguments
        THEN Outcome(tasks, task_id, Fault("KeyError", "title"))
        ELSE LET task == [id          |-> task_id,
                          title       |-> arguments["title"],
                          description |-> ArgGet(arguments, "description", EmptyStr),
                          priority    |-> "medium",
                          completed   |-> FALSE,
                          created_at  |-> Now]
             IN  Outcome(DictSet(tasks, task_id, task), task_id,
                         TextResult(CreatedText, task))

\* create_task that files the task under the store's size plus one
create_task_keyed_by_size(arguments) ==
    LET task_id == task_counter + 1
    IN  IF "title" \notin DOMAIN arguments
        THEN Outcome(tasks, task_id, Fault("KeyError", "title"))
        ELSE LET task == [id          |-> task_id,
                          title       |-> arguments["title"],
                          description |-> ArgGet(arguments, "description", EmptyStr),
                          priority    |-> ArgGet(arguments, "priority", "medium"),
                          completed   |-> FALSE,
                          created_at  |-> Now]
             IN  Outcome(DictSet(tasks, Len(tasks) + 1, task), task_id,
                         TextResult(CreatedText, task))

\* branch name == "create_task"
create_task(arguments) ==
    LET task_id == task_counter + 1
    IN  IF "title" \notin DOMAIN arguments
        THEN Outcome(tasks, task_id, Fault("KeyError", "title"))
        ELSE LET task == [id          |-> task_id,
                          title       |-> arguments["title"],
                          description |-> ArgGet(arguments, "description", EmptyStr),
                          priority    |-> ArgGet(arguments, "priority", "medium"),
                          completed   |-> FALSE,
                          created_at  |-> Now]
             IN  Outcome(DictSet(tasks, task_id, task), task_id,
                         TextResult(CreatedText, task))

\* complete_task that forgets to stamp completed_at
complete_task_without_timestamp(arguments) ==
    IF "task_id" \notin DOMAIN arguments
    THEN Outcome(tasks, task_counter, Fault("KeyError", "task_id"))
    ELSE LET parsed == PyInt(arguments["task_id"])
             task_id == parsed.val
         IN  IF ~parsed.ok
             THEN Outcome(tasks, task_counter,
                          Fault("ValueError", "invalid literal for int()"))
             ELSE IF task_id \notin DictKeys(tasks)
             THEN Outcome(tasks, task_counter, PlainText(NotFoundText(task_id)))
             ELSE LET task == FieldSet(DictGet(tasks, task_id), "completed", TRUE)
                  IN  Outcome(DictSet(tasks, task_id, task), task_counter,
                              TextResult(CompletedText(task_id), task))

\* complete_task that leaves an already completed task as it is
complete_task_once(arguments) ==
    IF "task_id" \notin DOMAIN arguments
    THEN Outcome(tasks, task_counter, Fault("KeyError", "task_id"))
    ELSE LET parsed == PyInt(arguments["task_id"])
             task_id == parsed.val
         IN  IF ~parsed.ok
             THEN Outcome(tasks, task_counter,
                          Fault("ValueError", "invalid literal for int()"))
             ELSE IF task_id \notin DictKeys(tasks)
             THEN Outcome(tasks, task_counter, PlainText(NotFoundText(task_id)))
             ELSE LET old  == DictGet(tasks, task_id)
                      task == IF old.completed THEN old
                              ELSE FieldSet(FieldSet(old, "completed", TRUE),
                                            "completed_at", Now)
                  IN  Outcome(DictSet(tasks, task_id, task), task_counter,
                              TextResult(CompletedText(task_id), task))

\* complete_task that also stamps created_at with the completion time
complete_task_restamping(arguments) ==
    IF "task_id" \notin DOMAIN arguments
    THEN Outcome(tasks, task_counter, Fault("KeyError", "task_id"))
    ELSE LET parsed == PyInt(arguments["task_id"])
             task_id == parsed.val
         IN  IF ~parsed.ok
             THEN Outcome(tasks, task_counter,
                          Fault("ValueError", "invalid literal for int()"))
             ELSE IF task_id \notin DictKeys(tasks)
             THEN Outcome(tasks, task_counter,
                          PlainText(NotFoundText(task_id)))
             ELSE LET task == FieldSet(FieldSet(FieldSet(DictGet(tasks, task_id),
                                                         "completed", TRUE),
                                                "completed_at", Now),
                                       "created_at", Now)
                  IN  Outcome(DictSet(tasks, task_id, task), task_counter,
                              TextResult(CompletedText(task_id), task))

\* branch name == "complete_task"
complete_task(arguments) ==
    IF "task_id" \notin DOMAIN arguments
    THEN Outcome(tasks, task_counter, Fault("KeyError", "task_id"))
    ELSE LET parsed == PyInt(arguments["task_id"])
             task_id == parsed.val
         IN  IF ~parsed.ok
             THEN Outcome(tasks, task_counter,
                          Fault("ValueError", "invalid literal for int()"))
             ELSE IF task_id \notin DictKeys(tasks)
             THEN Outcome(tasks, task_counter,
                          PlainText(NotFoundText(task_id)))
             ELSE LET task == FieldSet(FieldSet(DictGet(tasks, task_id),
                                                "completed", TRUE),
                                       "completed_at", Now)
                  IN  Outcome(DictSet(tasks, task_id, task), task_counter,
                              TextResult(CompletedText(task_id), task))

\* delete_task that raises for an absent id, as read_resource does
delete_task_raising(arguments) ==
    IF "task_id" \notin DOMAIN arguments
    THEN Outcome(tasks, task_counter, Fault("KeyError", "task_id"))
    ELSE LET parsed == PyInt(arguments["task_id"])
             task_id == parsed.val
         IN  IF ~parsed.ok
             THEN Outcome(tasks, task_counter,
                          Fault("ValueError", "invalid literal for int()"))
             ELSE IF task_id \notin DictKeys(tasks)
             THEN Outcome(tasks, task_counter,
                          Fault("ValueError", "Task {task_id} not found"))
             ELSE Outcome(DictPop(tasks, task_id), task_counter,
                          TextResult(DeletedText(task_id), DictGet(tasks, task_id)))

\* delete_task that reports the deletion but reads the task instead of popping it
delete_task_keeping(arguments) ==
    IF "task_id" \notin DOMAIN arguments
    THEN Outcome(tasks, task_counter, Fault("KeyError", "task_id"))
    ELSE LET parsed == PyInt(arguments["task_id"])
             task_id == parsed.val
         IN  IF ~parsed.ok
             THEN Outcome(tasks, task_counter,
                          Fault("ValueError", "invalid literal for int()"))
             ELSE IF task_id \notin DictKeys(tasks)
             THEN Outcome(tasks, task_counter, PlainText(NotFoundText(task_id)))
             ELSE Outcome(tasks, task_counter,
                          TextResult(DeletedText(task_id), DictGet(tasks, task_id)))

\* delete_task that empties the store
delete_task_clearing(arguments) ==
    IF "task_id" \notin DOMAIN arguments
    THEN Outcome(tasks, task_counter, Fault("KeyError", "task_id"))
    ELSE LET parsed == PyInt(arguments["task_id"])
             task_id == parsed.val
         IN  IF ~parsed.ok
             THEN Outcome(tasks, task_counter,
                          Fault("ValueError", "invalid literal for int()"))
             ELSE IF task_id \notin DictKeys(tasks)
             THEN Outcome(tasks, task_counter,
                          PlainText(NotFoundText(task_id)))
             ELSE Outcome(EmptyDict, task_counter,
                          TextResult(DeletedText(task_id), DictGet(tasks, task_id)))

\* delete_task that gives the id counter back one step
delete_task_reclaiming(arguments) ==
    IF "task_id" \notin DOMAIN arguments
    THEN Outcome(tasks, task_counter, Fault("KeyError", "task_id"))
    ELSE LET parsed == PyInt(arguments["task_id"])
             task_id == parsed.val
         IN  IF ~parsed.ok
             THEN Outcome(tasks, task_counter,
                          Fault("ValueError", "invalid literal for int()"))
             ELSE IF task_id \notin DictKeys(tasks)
             THEN Outcome(tasks, task_counter,
                          PlainText(NotFoundText(task_id)))
             ELSE Outcome(DictPop(tasks, task_id), task_counter - 1,
                          TextResult(DeletedText(task_id), DictGet(tasks, task_id)))

\* branch name == "delete_task"
delete_task(arguments) ==
    IF "task_id" \notin DOMAIN arguments
    THEN Outcome(tasks, task_counter, Fault("KeyError", "task_id"))
    ELSE LET parsed == PyInt(arguments["task_id"])
             task_id == parsed.val
         IN  IF ~parsed.ok
             THEN Outcome(tasks, task_counter,
                          Fault("ValueError", "invalid literal for int()"))
             ELSE IF task_id \notin DictKeys(tasks)
             THEN Outcome(tasks, task_counter,
                          PlainText(NotFoundText(task_id)))
             ELSE Outcome(DictPop(tasks, task_id), task_counter,
                          TextResult(DeletedText(task_id), DictGet(tasks, task_id)))

\* a match that looks at the description only
SearchMatchesDescriptionOnly(task, keyword) ==
    Contains(Lower(IF "description" \in DOMAIN task
                   THEN task.description ELSE EmptyStr), keyword)

\* a match that lower-cases the keyword but not the stored text
SearchMatchesCaseSensitive(task, keyword) ==
    \/ Contains(task.title, keyword)
    \/ Contains(IF "description" \in DOMAIN task
                THEN task.description ELSE EmptyStr, keyword)

\* the loop of the search_tasks branch over tasks.items()
SearchMatches(task, keyword) ==
    \/ Contains(Lower(task.title), keyword)
    \/ Contains(Lower(IF "description" \in DOMAIN task
                      THEN task.description ELSE EmptyStr), keyword)

\* a search that takes the tasks it finds out of the store
search_tasks_consuming(arguments) ==
    IF "keyword" \notin DOMAIN arguments
    THEN Outcome(tasks, task_counter, Fault("KeyError", "keyword"))
    ELSE LET keyword == Lower(arguments["keyword"])
             results == SelectSeq(DictValues(tasks),
                                  LAMBDA task : SearchMatches(task, keyword))
         IN  Outcome(SelectSeq(tasks, LAMBDA e : ~SearchMatches(e.val, keyword)),
                     task_counter,
                     TextResult(FoundText(Len(results), keyword), results))

\* branch name == "search_tasks"
search_tasks(arguments) ==
    IF "keyword" \notin DOMAIN arguments
    THEN Outcome(tasks, task_counter, Fault("KeyError", "keyword"))
    ELSE LET keyword == Lower(arguments["keyword"])
             results == SelectSeq(DictValues(tasks),
                                  LAMBDA task : SearchMatches(task, keyword))
         IN  Outcome(tasks, task_counter,
                     TextResult(FoundText(Len(results), keyword), results))

\* an else branch that answers with a text instead of raising
unknown_tool_as_text(name) ==
    Outcome(tasks, task_counter, PlainText(<<"U","n","k","n","o","w","n"," ","t","o","o","l">>))

\* the final else branch
unknown_tool(name) ==
    Outcome(tasks, task_counter, Fault("ValueError", "Unknown tool: {name}"))

\* the if/elif chain of call_tool
call_tool_body(name, arguments) ==
    IF name = "create_task" THEN create_task(arguments)
    ELSE IF name = "complete_task" THEN complete_task(arguments)
    ELSE IF name = "delete_task" THEN delete_task(arguments)
    ELSE IF name = "search_tasks" THEN search_tasks(arguments)
    ELSE unknown_tool(name)

\* handler call_tool(name, arguments); creations stop when the counter is limit
call_tool_upto(limit, name, arguments) ==
    /\ name = "create_task" => task_counter < limit
    /\ LET out == call_tool_body(name, arguments)
           ret == out.ret
       IN  /\ tasks' = out.tasks
           /\ task_counter' = out.task_counter
           /\ result' = [op |-> "call_tool", name |-> name,
                         arguments |-> arguments, ret |-> ret]
           /\ pre' = Snapshot
           /\ issued' = IF name = "create_task" /\ ret.kind = "text"
                        THEN Append(issued, ret.json.id)
                        ELSE issued
           /\ deleted' = IF name = "delete_task" /\ ret.kind = "text"
                            /\ "json" \in DOMAIN ret
                         THEN deleted \cup {ret.json.id}
                         ELSE deleted
    /\ UNCHANGED clock

\* handler call_tool(name, arguments)
call_tool(name, arguments) == call_tool_upto(MaxCounter, name, arguments)

\* ------------------------------------------------------------------------
\* Tools catalog
\* ------------------------------------------------------------------------
\* the Tool entries list_tools returns: name, and the schema's required keys
Tools ==
    << [name |-> "create_task",   required |-> <<"title">>],
       [name |-> "complete_task", required |-> <<"task_id">>],
       [name |-> "delete_task",   required |-> <<"task_id">>],
       [name |-> "search_tasks",  required |-> <<"keyword">>] >>

\* handler list_tools()
list_tools ==
    /\ result' = [op |-> "list_tools",
                  ret |-> [kind |-> "list", tools |-> Tools]]
    /\ pre' = Snapshot
    /\ UNCHANGED <<tasks, task_counter, clock, issued, deleted>>

\* ------------------------------------------------------------------------
\* Resources
\* ------------------------------------------------------------------------
TaskScheme == <<"t","a","s","k",":","/","/">>

AllUri == TaskScheme \o <<"a","l","l">>

\* f"task://{task_id}"
TaskUri(task_id) == TaskScheme \o IntToStr(task_id)

\* the Resource appended for one entry of tasks.items()
TaskResource(task_id, task) ==
    [uri         |-> TaskUri(task_id),
     name        |-> <<"T","a","s","k"," ">> \o IntToStr(task_id),
     mimeType    |-> "application/json",
     description |-> <<"D","e","t","a","i","l","s"," ","f","o","r"," ",
                       "t","a","s","k",":"," ">> \o task.title]

\* the Resource for task://all
AllResource ==
    [uri         |-> AllUri,
     name        |-> <<"A","l","l"," ","T","a","s","k","s">>,
     mimeType    |-> "application/json",
     description |-> <<"C","o","m","p","l","e","t","e"," ","l","i","s",
                       "t"," ","o","f"," ","a","l","l"," ","t","a","s",
                       "k","s"," ","i","n"," ","t","h","e"," ","s","y",
                       "s","t","e","m">>]

\* a listing that leaves out the loop over tasks.items()
ResourcesStatic == <<AllResource>>

\* the list built by list_resources
Resources ==
    <<AllResource>> \o [i \in DOMAIN tasks |-> TaskResource(tasks[i].key, tasks[i].val)]

\* handler list_resources()
list_resources ==
    /\ result' = [op |-> "list_resources",
                  ret |-> [kind |-> "list", resources |-> Resources]]
    /\ pre' = Snapshot
    /\ UNCHANGED <<tasks, task_counter, clock, issued, deleted>>

\* json.dumps of the tasks dict: an object, whose keys are strings
JsonObject(d) == [i \in DOMAIN d |-> [key |-> IntToStr(d[i].key), val |-> d[i].val]]

\* read_resource that answers an absent id with a text, as the tools do
read_resource_body_soft(uri) ==
    IF uri = AllUri
    THEN JsonText([tasks       |-> JsonObject(tasks),
                   total_count |-> Len(tasks),
                   timestamp   |-> Now])
    ELSE IF StartsWith(uri, TaskScheme)
    THEN LET parsed  == StrToInt(Split(uri, <<"/","/">>)[2])
             task_id == parsed.val
         IN  IF ~parsed.ok
             THEN Fault("ValueError", "invalid literal for int()")
             ELSE IF task_id \in DictKeys(tasks)
             THEN JsonText(DictGet(tasks, task_id))
             ELSE PlainText(NotFoundText(task_id))
    ELSE Fault("ValueError", "Unknown resource URI: {uri}")

\* read_resource that reports the id counter as the number of tasks
read_resource_body_counting_ids(uri) ==
    IF uri = AllUri
    THEN JsonText([tasks       |-> JsonObject(tasks),
                   total_count |-> task_counter,
                   timestamp   |-> Now])
    ELSE IF StartsWith(uri, TaskScheme)
    THEN LET parsed  == StrToInt(Split(uri, <<"/","/">>)[2])
             task_id == parsed.val
         IN  IF ~parsed.ok
             THEN Fault("ValueError", "invalid literal for int()")
             ELSE IF task_id \in DictKeys(tasks)
             THEN JsonText(DictGet(tasks, task_id))
             ELSE Fault("ValueError", "Task {task_id} not found")
    ELSE Fault("ValueError", "Unknown resource URI: {uri}")

\* the body of read_resource: what it returns or raises
read_resource_body(uri) ==
    IF uri = AllUri
    THEN JsonText([tasks       |-> JsonObject(tasks),
                   total_count |-> Len(tasks),
                   timestamp   |-> Now])
    ELSE IF StartsWith(uri, TaskScheme)
    THEN LET parsed  == StrToInt(Split(uri, <<"/","/">>)[2])
             task_id == parsed.val
         IN  IF ~parsed.ok
             THEN Fault("ValueError", "invalid literal for int()")
             ELSE IF task_id \in DictKeys(tasks)
             THEN JsonText(DictGet(tasks, task_id))
             ELSE Fault("ValueError", "Task {task_id} not found")
    ELSE Fault("ValueError", "Unknown resource URI: {uri}")

\* handler read_resource(uri)
read_resource(uri) ==
    /\ result' = [op |-> "read_resource", uri |-> uri,
                  ret |-> read_resource_body(uri)]
    /\ pre' = Snapshot
    /\ UNCHANGED <<tasks, task_counter, clock, issued, deleted>>

\* ------------------------------------------------------------------------
\* Prompts
\* ------------------------------------------------------------------------
\* the arguments parameter of get_prompt: None, or a dict of strings
None == [is_none |-> TRUE]

Some(d) == [is_none |-> FALSE, value |-> d]

\* truth value of "arguments" in a conditional expression
Truthy(arguments) == ~arguments.is_none /\ DOMAIN arguments.value # {}

\* the list built by list_prompts
Prompts ==
    << [name |-> "daily_summary",
        arguments |-> << [name |-> "include_completed", required |-> FALSE] >>],
       [name |-> "task_priorities",
        arguments |-> << >>],
       [name |-> "create_task_wizard",
        arguments |-> << [name |-> "task_type", required |-> TRUE] >>] >>

\* handler list_prompts()
list_prompts ==
    /\ result' = [op |-> "list_prompts",
                  ret |-> [kind |-> "list", prompts |-> Prompts]]
    /\ pre' = Snapshot
    /\ UNCHANGED <<tasks, task_counter, clock, issued, deleted>>

\* a GetPromptResult with its one user message
PromptResult(description, text) ==
    [kind |-> "prompt", description |-> description,
     messages |-> << [role |-> "user", text |-> text] >>]

\* a parse that takes everything but "false" for true
IncludeCompletedUnlessFalse(arguments) ==
    IF Truthy(arguments)
    THEN ArgGet(arguments.value, "include_completed", "true") # "false"
    ELSE TRUE

\* arguments.get("include_completed", "true") == "true" if arguments else True
IncludeCompleted(arguments) ==
    IF Truthy(arguments)
    THEN ArgGet(arguments.value, "include_completed", "true") = "true"
    ELSE TRUE

\* branch name == "daily_summary"
daily_summary(arguments) ==
    LET include_completed == IncludeCompleted(arguments)
        task_list == SelectSeq(DictValues(tasks),
                         LAMBDA task : ~(~include_completed /\ task.completed))
    IN  PromptResult(<<"D","a","i","l","y"," ","t","a","s","k"," ","s","u","m","m","a","r","y"," ","p","r","o","m","p","t">>,
                     [template |-> "Please provide a daily summary of tasks.",
                      total |-> Len(task_list),
                      json |-> task_list])

\* branch name == "task_priorities"
task_priorities ==
    PromptResult(<<"T","a","s","k"," ","p","r","i","o","r","i","t","y"," ","a","n","a","l","y","s","i","s"," ","p","r","o","m","p","t">>,
                 [template |-> "Analyze the following tasks and provide priority recommendations:",
                  json |-> DictValues(tasks)])

GeneralTaskType == <<"g","e","n","e","r","a","l">>

\* f"Interactive wizard for creating a {task_type} task"
WizardDescription(task_type) ==
    <<"I","n","t","e","r","a","c","t","i","v","e"," ","w","i","z","a","r","d"," ","f","o","r"," ","c","r","e","a","t","i","n","g"," ","a"," ">>
    \o task_type \o <<" ","t","a","s","k">>

\* a wizard that insists on the task_type its schema declares required
create_task_wizard_strict(arguments) ==
    IF arguments.is_none
    THEN Fault("TypeError", "'NoneType' object is not subscriptable")
    ELSE IF "task_type" \notin DOMAIN arguments.value
    THEN Fault("KeyError", "task_type")
    ELSE PromptResult(WizardDescription(arguments.value["task_type"]),
                      [template |-> "Let's create a well-structured {task_type} task together.",
                       task_type |-> arguments.value["task_type"]])

\* branch name == "create_task_wizard"
create_task_wizard(arguments) ==
    LET task_type == IF Truthy(arguments)
                     THEN ArgGet(arguments.value, "task_type", GeneralTaskType)
                     ELSE GeneralTaskType
    IN  PromptResult(WizardDescription(task_type),
                     [template |-> "Let's create a well-structured {task_type} task together.",
                      task_type |-> task_type])

\* an else branch that answers with an empty prompt instead of raising
unknown_prompt_as_empty(name) ==
    PromptResult(EmptyStr, [template |-> ""])

\* the final else branch of get_prompt
unknown_prompt(name) == Fault("ValueError", "Unknown prompt: {name}")

\* the if/elif chain of get_prompt
get_prompt_body(name, arguments) ==
    IF name = "daily_summary" THEN daily_summary(arguments)
    ELSE IF name = "task_priorities" THEN task_priorities
    ELSE IF name = "create_task_wizard" THEN create_task_wizard(arguments)
    ELSE unknown_prompt(name)

\* handler get_prompt(name, arguments)
get_prompt(name, arguments) ==
    /\ result' = [op |-> "get_prompt", name |-> name, arguments |-> arguments,
                  ret |-> get_prompt_body(name, arguments)]
    /\ pre' = Snapshot
    /\ UNCHANGED <<tasks, task_counter, clock, issued, deleted>>

\* ------------------------------------------------------------------------
\* The HTTP binding (src/mcp_server_http.py): its own globals and handlers
\* ------------------------------------------------------------------------
\* mcp_server_http.py, call_tool, lines 169-189
http_create_task(arguments) ==
    LET task_id == http_task_counter + 1
    IN  IF "title" \notin DOMAIN arguments
        THEN Outcome(http_tasks, task_id, Fault("KeyError", "title"))
        ELSE LET task == [id          |-> task_id,
                          title       |-> arguments["title"],
                          description |-> ArgGet(arguments, "description", EmptyStr),
                          priority    |-> ArgGet(arguments, "priority", "medium"),
                          completed   |-> FALSE,
                          created_at  |-> Now]
             IN  Outcome(DictSet(http_tasks, task_id, task), task_id,
                         TextResult(CreatedText, task))

\* variant: the HTTP binding marks the task completed but records no time
http_complete_task_without_timestamp(arguments) ==
    IF "task_id" \notin DOMAIN arguments
    THEN Outcome(http_tasks, http_task_counter, Fault("KeyError", "task_id"))
    ELSE LET parsed == PyInt(arguments["task_id"])
             task_id == parsed.val
         IN  IF ~parsed.ok
             THEN Outcome(http_tasks, http_task_counter,
                          Fault("ValueError", "invalid literal for int()"))
             ELSE IF task_id \notin DictKeys(http_tasks)
             THEN Outcome(http_tasks, http_task_counter,
                          PlainText(NotFoundText(task_id)))
             ELSE LET task == FieldSet(DictGet(http_tasks, task_id),
                                       "completed", TRUE)
                  IN  Outcome(DictSet(http_tasks, task_id, task), http_task_counter,
                              TextResult(CompletedText(task_id), task))

\* mcp_server_http.py, call_tool, lines 191-205
http_complete_task(arguments) ==
    IF "task_id" \notin DOMAIN arguments
    THEN Outcome(http_tasks, http_task_counter, Fault("KeyError", "task_id"))
    ELSE LET parsed == PyInt(arguments["task_id"])
             task_id == parsed.val
         IN  IF ~parsed.ok
             THEN Outcome(http_tasks, http_task_counter,
                          Fault("ValueError", "invalid literal for int()"))
             ELSE IF task_id \notin DictKeys(http_tasks)
             THEN Outcome(http_tasks, http_task_counter,
                          PlainText(NotFoundText(task_id)))
             ELSE LET task == FieldSet(FieldSet(DictGet(http_tasks, task_id),
                                                "completed", TRUE),
                                       "completed_at", Now)
                  IN  Outcome(DictSet(http_tasks, task_id, task), http_task_counter,
                              TextResult(CompletedText(task_id), task))

\* mcp_server_http.py, call_tool, lines 207-220
http_delete_task(arguments) ==
    IF "task_id" \notin DOMAIN arguments
    THEN Outcome(http_tasks, http_task_counter, Fault("KeyError", "task_id"))
    ELSE LET parsed == PyInt(arguments["task_id"])
             task_id == parsed.val
         IN  IF ~parsed.ok
             THEN Outcome(http_tasks, http_task_counter,
                          Fault("ValueError", "invalid literal for int()"))
             ELSE IF task_id \notin DictKeys(http_tasks)
             THEN Outcome(http_tasks, http_task_counter,
                          PlainText(NotFoundText(task_id)))
             ELSE Outcome(DictPop(http_tasks, task_id), http_task_counter,
                          TextResult(DeletedText(task_id), DictGet(http_tasks, task_id)))

\* mcp_server_http.py, call_tool, lines 222-236
http_search_tasks(arguments) ==
    IF "keyword" \notin DOMAIN arguments
    THEN Outcome(http_tasks, http_task_counter, Fault("KeyError", "keyword"))
    ELSE LET keyword == Lower(arguments["keyword"])
             results == SelectSeq(DictValues(http_tasks),
                                  LAMBDA task : SearchMatches(task, keyword))
         IN  Outcome(http_tasks, http_task_counter,
                     TextResult(FoundText(Len(results), keyword), results))

\* mcp_server_http.py, call_tool, lines 238-239
http_unknown_tool(name) ==
    Outcome(http_tasks, http_task_counter, Fault("ValueError", "Unknown tool: {name}"))

\* mcp_server_http.py, call_tool, lines 169-239
http_call_tool_body(name, arguments) ==
    IF name = "create_task" THEN http_create_task(arguments)
    ELSE IF name = "complete_task" THEN http_complete_task(arguments)
    ELSE IF name = "delete_task" THEN http_delete_task(arguments)
    ELSE IF name = "search_tasks" THEN http_search_tasks(arguments)
    ELSE http_unknown_tool(name)

\* mcp_server_http.py, list_resources, lines 42-63
http_Resources ==
    <<AllResource>> \o [i \in DOMAIN http_tasks |-> TaskResource(http_tasks[i].key, http_tasks[i].val)]

\* mcp_server_http.py, read_resource, lines 69-85
http_read_resource_body(uri) ==
    IF uri = AllUri
    THEN JsonText([tasks       |-> JsonObject(http_tasks),
                   total_count |-> Len(http_tasks),
                   timestamp   |-> Now])
    ELSE IF StartsWith(uri, TaskScheme)
    THEN LET parsed  == StrToInt(Split(uri, <<"/","/">>)[2])
             task_id == parsed.val
         IN  IF ~parsed.ok
             THEN Fault("ValueError", "invalid literal for int()")
             ELSE IF task_id \in DictKeys(http_tasks)
             THEN JsonText(DictGet(http_tasks, task_id))
             ELSE Fault("ValueError", "Task {task_id} not found")
    ELSE Fault("ValueError", "Unknown resource URI: {uri}")

\* mcp_server_http.py, get_prompt, lines 284-284
http_IncludeCompleted(arguments) ==
    IF Truthy(arguments)
    THEN ArgGet(arguments.value, "include_completed", "true") = "true"
    ELSE TRUE

\* mcp_server_http.py, get_prompt, lines 283-311
http_daily_summary(arguments) ==
    LET include_completed == http_IncludeCompleted(arguments)
        task_list == SelectSeq(DictValues(http_tasks),
                         LAMBDA task : ~(~include_completed /\ task.completed))
    IN  PromptResult(<<"D","a","i","l","y"," ","t","a","s","k"," ","s","u","m","m","a","r","y"," ","p","r","o","m","p","t">>,
                     [template |-> "Please provide a daily summary of tasks.",
                      total |-> Len(task_list),
                      json |-> task_list])

\* mcp_server_http.py, get_prompt, lines 313-332
http_task_priorities ==
    PromptResult(<<"T","a","s","k"," ","p","r","i","o","r","i","t","y"," ","a","n","a","l","y","s","i","s"," ","p","r","o","m","p","t">>,
                 [template |-> "Analyze the following tasks and provide priority recommendations:",
                  json |-> DictValues(http_tasks)])

\* mcp_server_http.py, get_prompt, lines 334-355
http_create_task_wizard(arguments) ==
    LET task_type == IF Truthy(arguments)
                     THEN ArgGet(arguments.value, "task_type", GeneralTaskType)
                     ELSE GeneralTaskType
    IN  PromptResult(WizardDescription(task_type),
                     [template |-> "Let's create a well-structured {task_type} task together.",
                      task_type |-> task_type])

\* mcp_server_http.py, get_prompt, lines 357-358
http_unknown_prompt(name) == Fault("ValueError", "Unknown prompt: {name}")

\* mcp_server_http.py, get_prompt, lines 283-358
http_get_prompt_body(name, arguments) ==
    IF name = "daily_summary" THEN http_daily_summary(arguments)
    ELSE IF name = "task_priorities" THEN http_task_priorities
    ELSE IF name = "create_task_wizard" THEN http_create_task_wizard(arguments)
    ELSE http_unknown_prompt(name)

\* handler call_tool(name, arguments) of the HTTP binding
http_call_tool(name, arguments) ==
    /\ name = "create_task" => http_task_counter < MaxCounter
    /\ LET out == http_call_tool_body(name, arguments)
       IN  /\ http_tasks' = out.tasks
           /\ http_task_counter' = out.task_counter
           /\ http_result' = [op |-> "call_tool", name |-> name,
                              arguments |-> arguments, ret |-> out.ret]

\* handler list_resources() of the HTTP binding
http_list_resources ==
    /\ http_result' = [op |-> "list_resources",
                       ret |-> [kind |-> "list", resources |-> http_Resources]]
    /\ UNCHANGED <<http_tasks, http_task_counter>>

\* handler read_resource(uri) of the HTTP binding
http_read_resource(uri) ==
    /\ http_result' = [op |-> "read_resource", uri |-> uri,
                       ret |-> http_read_resource_body(uri)]
    /\ UNCHANGED <<http_tasks, http_task_counter>>

\* handler list_prompts() of the HTTP binding
http_list_prompts ==
    /\ http_result' = [op |-> "list_prompts",
                       ret |-> [kind |-> "list", prompts |-> Prompts]]
    /\ UNCHANGED <<http_tasks, http_task_counter>>

\* handler get_prompt(name, arguments) of the HTTP binding
http_get_prompt(name, arguments) ==
    /\ http_result' = [op |-> "get_prompt", name |-> name,
                       arguments |-> arguments,
                       ret |-> http_get_prompt_body(name, arguments)]
    /\ UNCHANGED <<http_tasks, http_task_counter>>

\* ------------------------------------------------------------------------
\* The HTTP binding serving several connections: uvicorn runs one process
\* with one asyncio event loop; every request becomes a coroutine on that
\* loop, and a coroutine gives up the loop only at an await. The bodies of
\* call_tool and read_resource contain no await.
\* ------------------------------------------------------------------------
pipe_vars == <<tasks, task_counter, result, pre, issued, deleted>>

\* the connections to the HTTP binding
Conns == 1..NumConns

\* a connection with no request in flight
IdleConn == [pc |-> "idle"]

\* variant: a preemptive scheduler, any started handler may run its next
\* statement at any time
CanRunPreemptive(c) == TRUE

\* the loop may run the next statement of connection c's handler: no other
\* handler is inside its body
CanRun(c) == running \in {0, c}

\* connection c's handler is about to run the statement labelled pc
At(c, pc) == conns[c].pc = pc /\ CanRun(c)

\* connection c's handler is at the top of call_tool for tool name
AtTool(c, name) ==
    /\ At(c, "ready")
    /\ conns[c].request.op = "call_tool"
    /\ conns[c].request.name = name

\* connection c's handler moves on to statement pc, with new locals
Goto(c, pc, locals) ==
    /\ conns' = [conns EXCEPT ![c] = ([pc |-> pc] @@ locals) @@ conns[c]]
    /\ running' = c

NoLocals == [k \in {} |-> 0]

\* connection c's handler returns ret (or raises it) and leaves the loop
Return(c, ret) ==
    /\ http_result' = [ret |-> ret] @@ conns[c].request
    /\ conns' = [conns EXCEPT ![c] = IdleConn]
    /\ running' = 0

\* POST /messages on connection c: the request is queued for its session
handle_messages(c, request) ==
    /\ conns[c].pc = "idle"
    /\ conns' = [conns EXCEPT ![c] = [pc |-> "ready", request |-> request]]
    /\ UNCHANGED <<http_vars, running, received, clock, pipe_vars, hamza_vars>>

\* create_task: task_counter += 1
create_170(c) ==
    /\ AtTool(c, "create_task")
    /\ http_task_counter < MaxCounter
    /\ http_task_counter' = http_task_counter + 1
    /\ Goto(c, "create_171", NoLocals)
    /\ UNCHANGED <<http_tasks, http_result, received, clock, pipe_vars, hamza_vars>>

\* create_task: task_id = task_counter
create_171(c) ==
    /\ At(c, "create_171")
    /\ Goto(c, "create_173", [task_id |-> http_task_counter])
    /\ UNCHANGED <<http_vars, received, clock, pipe_vars, hamza_vars>>

\* create_task: task = {...}, which raises KeyError without a title
create_173(c) ==
    /\ At(c, "create_173")
    /\ LET arguments == conns[c].request.arguments
       IN  IF "title" \notin DOMAIN arguments
           THEN Return(c, Fault("KeyError", "title"))
           ELSE /\ Goto(c, "create_182",
                        [task |-> [id          |-> conns[c].task_id,
                                   title       |-> arguments["title"],
                                   description |-> ArgGet(arguments, "description", EmptyStr),
                                   priority    |-> ArgGet(arguments, "priority", "medium"),
                                   completed   |-> FALSE,
                                   created_at  |-> Now]])
                /\ UNCHANGED http_result
    /\ UNCHANGED <<http_tasks, http_task_counter, received, clock, pipe_vars, hamza_vars>>

\* create_task: tasks[task_id] = task
create_182(c) ==
    /\ At(c, "create_182")
    /\ http_tasks' = DictSet(http_tasks, conns[c].task_id, conns[c].task)
    /\ Goto(c, "create_184", NoLocals)
    /\ UNCHANGED <<http_task_counter, http_result, received, clock, pipe_vars, hamza_vars>>

\* create_task: return the text with the new task
create_184(c) ==
    /\ At(c, "create_184")
    /\ Return(c, TextResult(CreatedText, conns[c].task))
    /\ received' = Append(received, conns[c].task_id)
    /\ UNCHANGED <<http_tasks, http_task_counter, clock, pipe_vars, hamza_vars>>
\* complete_task and delete_task: task_id = int(arguments["task_id"])
ParseTaskId(c, next) ==
    LET arguments == conns[c].request.arguments
    IN  IF "task_id" \notin DOMAIN arguments
        THEN Return(c, Fault("KeyError", "task_id"))
        ELSE LET parsed == PyInt(arguments["task_id"])
             IN  IF ~parsed.ok
                 THEN Return(c, Fault("ValueError", "invalid literal for int()"))
                 ELSE /\ Goto(c, next, [task_id |-> parsed.val])
                      /\ UNCHANGED http_result

\* complete_task and delete_task: if task_id not in tasks: return "not found"
CheckTaskId(c, next) ==
    IF conns[c].task_id \notin DictKeys(http_tasks)
    THEN Return(c, PlainText(NotFoundText(conns[c].task_id)))
    ELSE Goto(c, next, NoLocals) /\ UNCHANGED http_result

\* complete_task: task_id = int(arguments["task_id"])
complete_192(c) ==
    /\ AtTool(c, "complete_task")
    /\ ParseTaskId(c, "complete_194")
    /\ UNCHANGED <<http_tasks, http_task_counter, received, clock, pipe_vars, hamza_vars>>

\* complete_task: if task_id not in tasks
complete_194(c) ==
    /\ At(c, "complete_194")
    /\ CheckTaskId(c, "complete_197")
    /\ UNCHANGED <<http_tasks, http_task_counter, received, clock, pipe_vars, hamza_vars>>

\* complete_task: tasks[task_id]["completed"] = True
complete_197(c) ==
    /\ At(c, "complete_197")
    /\ LET task_id == conns[c].task_id
       IN  IF task_id \notin DictKeys(http_tasks)
           THEN Return(c, Fault("KeyError", "task_id")) /\ UNCHANGED http_tasks
           ELSE /\ http_tasks' = DictSet(http_tasks, task_id,
                                   FieldSet(DictGet(http_tasks, task_id),
                                            "completed", TRUE))
                /\ Goto(c, "complete_198", NoLocals)
                /\ UNCHANGED http_result
    /\ UNCHANGED <<http_task_counter, received, clock, pipe_vars, hamza_vars>>

\* complete_task: tasks[task_id]["completed_at"] = datetime.now().isoformat()
complete_198(c) ==
    /\ At(c, "complete_198")
    /\ LET task_id == conns[c].task_id
       IN  IF task_id \notin DictKeys(http_tasks)
           THEN Return(c, Fault("KeyError", "task_id")) /\ UNCHANGED http_tasks
           ELSE /\ http_tasks' = DictSet(http_tasks, task_id,
                                   FieldSet(DictGet(http_tasks, task_id),
                                            "completed_at", Now))
                /\ Goto(c, "complete_200", NoLocals)
                /\ UNCHANGED http_result
    /\ UNCHANGED <<http_task_counter, received, clock, pipe_vars, hamza_vars>>

\* complete_task: return the text with tasks[task_id]
complete_200(c) ==
    /\ At(c, "complete_200")
    /\ LET task_id == conns[c].task_id
       IN  IF task_id \notin DictKeys(http_tasks)
           THEN Return(c, Fault("KeyError", "task_id"))
           ELSE Return(c, TextResult(CompletedText(task_id),
                                     DictGet(http_tasks, task_id)))
    /\ UNCHANGED <<http_tasks, http_task_counter, received, clock, pipe_vars, hamza_vars>>

\* delete_task: task_id = int(arguments["task_id"])
delete_208(c) ==
    /\ AtTool(c, "delete_task")
    /\ ParseTaskId(c, "delete_210")
    /\ UNCHANGED <<http_tasks, http_task_counter, received, clock, pipe_vars, hamza_vars>>

\* delete_task: if task_id not in tasks
delete_210(c) ==
    /\ At(c, "delete_210")
    /\ CheckTaskId(c, "delete_213")
    /\ UNCHANGED <<http_tasks, http_task_counter, received, clock, pipe_vars, hamza_vars>>

\* delete_task: deleted_task = tasks.pop(task_id)
delete_213(c) ==
    /\ At(c, "delete_213")
    /\ LET task_id == conns[c].task_id
       IN  IF task_id \notin DictKeys(http_tasks)
           THEN Return(c, Fault("KeyError", "task_id")) /\ UNCHANGED http_tasks
           ELSE /\ http_tasks' = DictPop(http_tasks, task_id)
                /\ Goto(c, "delete_215",
                        [deleted_task |-> DictGet(http_tasks, task_id)])
                /\ UNCHANGED http_result
    /\ UNCHANGED <<http_task_counter, received, clock, pipe_vars, hamza_vars>>

\* delete_task: return the text with deleted_task
delete_215(c) ==
    /\ At(c, "delete_215")
    /\ Return(c, TextResult(DeletedText(conns[c].task_id),
                            conns[c].deleted_task))
    /\ UNCHANGED <<http_tasks, http_task_counter, received, clock, pipe_vars, hamza_vars>>

\* read_resource(uri): one expression builds the answer from the store
loop_read_resource(c) ==
    /\ At(c, "ready")
    /\ conns[c].request.op = "read_resource"
    /\ Return(c, http_read_resource_body(conns[c].request.uri))
    /\ UNCHANGED <<http_tasks, http_task_counter, received, clock, pipe_vars, hamza_vars>>

\* ------------------------------------------------------------------------
\* The hamza-tasks server (src/hamza_mcp.py): a list of tasks, addressed by
\* their 1-based position
\* ------------------------------------------------------------------------
\* what one run of hamza_mcp.py's call_tool body does to the list, and its
\* outcome
HamzaOutcome(newTasks, ret) == [tasks |-> newTasks, ret |-> ret]

HamzaInfoText ==
    <<"\n","N","a","m","e",":"," ","H","a","m","z","a"," ","S","a","m","h",
    "a","\n","J","o","b"," ","T","i","t","l","e",":"," ","S","o","f","t",
    "w","a","r","e"," ","D","e","v","e","l","o","p","e","r","\n","C","o",
    "m","p","a","n","y",":"," ","e","S","e","n","s","e"," ","s","o","f","t",
    "w","a","r","e","\n","D","e","p","a","r","t","m","e","n","t",":"," ",
    "A","I"," ","T","e","a","m","\n","P","r","o","d","u","c","t","s",":",
    " ","E","l","n","a","\n","L","o","c","a","t","i","o","n",":"," ","A",
    "m","m","a","n",","," ","J","o","r","d","a","n","\n","P","h","o","n",
    "e"," ","n","u","m","b","e","r",":"," ","0","7","8","6","3","7","1","2",
    "8","1","\n">>

\* f"Added task: {arguments['task']}"
AddedTaskText(description) ==
    <<"A","d","d","e","d"," ","t","a","s","k",":"," ">> \o description

NoTasksText == <<"N","o"," ","t","a","s","k","s"," ","y","e","t",".">>

HamzaTasksText == <<"H","a","m","z","a","'","s"," ","T","a","s","k","s",":">>

\* f"Updated task #{num}"
UpdatedTaskText(num) ==
    <<"U","p","d","a","t","e","d"," ","t","a","s","k"," ","#">> \o IntToStr(num)

\* f"Task #{num} not found"
TaskNumberNotFoundText(num) ==
    <<"T","a","s","k"," ","#">> \o IntToStr(num) \o <<" ","n","o","t"," ","f","o","u","n","d">>

\* f"Deleted task: {deleted['description']}"
DeletedTaskText(description) ==
    <<"D","e","l","e","t","e","d"," ","t","a","s","k",":"," ">> \o description

\* branch name == "get_hamza_info"
hamza_get_hamza_info == HamzaOutcome(hamza_tasks, PlainText(HamzaInfoText))

\* branch name == "add_task"
hamza_add_task(arguments) ==
    IF "task" \notin DOMAIN arguments
    THEN HamzaOutcome(hamza_tasks, Fault("KeyError", "task"))
    ELSE LET task == [description |-> arguments["task"], created |-> Now]
         IN  HamzaOutcome(Append(hamza_tasks, task),
                          PlainText(AddedTaskText(arguments["task"])))

\* branch name == "get_tasks"
hamza_get_tasks ==
    IF hamza_tasks = << >>
    THEN HamzaOutcome(hamza_tasks, PlainText(NoTasksText))
    ELSE HamzaOutcome(hamza_tasks,
             [kind     |-> "text",
              headline |-> HamzaTasksText,
              lines    |-> [i \in DOMAIN hamza_tasks |->
                               [number      |-> i,
                                description |-> hamza_tasks[i].description,
                                created     |-> hamza_tasks[i].created]]])

\* 1 <= num <= len(tasks), which raises TypeError when num is a string
NumberInRange(num) ==
    IF num.type # "int"
    THEN [ok |-> FALSE, val |-> FALSE]
    ELSE [ok |-> TRUE, val |-> 1 <= num.v /\ num.v <= Len(hamza_tasks)]

\* branch name == "update_task"
hamza_update_task(arguments) ==
    IF "task_number" \notin DOMAIN arguments
    THEN HamzaOutcome(hamza_tasks, Fault("KeyError", "task_number"))
    ELSE LET num     == arguments["task_number"]
             inRange == NumberInRange(num)
         IN  IF ~inRange.ok
             THEN HamzaOutcome(hamza_tasks,
                      Fault("TypeError", "'<=' not supported between instances"))
             ELSE IF ~inRange.val
             THEN HamzaOutcome(hamza_tasks,
                               PlainText(TaskNumberNotFoundText(num.v)))
             ELSE IF "new_description" \notin DOMAIN arguments
             THEN HamzaOutcome(hamza_tasks, Fault("KeyError", "new_description"))
             ELSE HamzaOutcome(
                      [hamza_tasks EXCEPT ![num.v].description =
                                              arguments["new_description"]],
                      PlainText(UpdatedTaskText(num.v)))

\* delete_task that takes task_number for a 0-based index
hamza_delete_task_zero_based(arguments) ==
    IF "task_number" \notin DOMAIN arguments
    THEN HamzaOutcome(hamza_tasks, Fault("KeyError", "task_number"))
    ELSE LET num     == arguments["task_number"]
             inRange == NumberInRange(num)
         IN  IF ~inRange.ok
             THEN HamzaOutcome(hamza_tasks,
                      Fault("TypeError", "'<=' not supported between instances"))
             ELSE IF ~inRange.val
             THEN HamzaOutcome(hamza_tasks,
                               PlainText(TaskNumberNotFoundText(num.v)))
             ELSE LET at == IF num.v + 1 <= Len(hamza_tasks)
                            THEN num.v + 1 ELSE Len(hamza_tasks)
                      deleted_task == hamza_tasks[at]
                  IN  HamzaOutcome(
                          SubSeq(hamza_tasks, 1, at - 1)
                              \o SubSeq(hamza_tasks, at + 1, Len(hamza_tasks)),
                          PlainText(DeletedTaskText(deleted_task.description)))

\* branch name == "delete_task"
hamza_delete_task(arguments) ==
    IF "task_number" \notin DOMAIN arguments
    THEN HamzaOutcome(hamza_tasks, Fault("KeyError", "task_number"))
    ELSE LET num     == arguments["task_number"]
             inRange == NumberInRange(num)
         IN  IF ~inRange.ok
             THEN HamzaOutcome(hamza_tasks,
                      Fault("TypeError", "'<=' not supported between instances"))
             ELSE IF ~inRange.val
             THEN HamzaOutcome(hamza_tasks,
                               PlainText(TaskNumberNotFoundText(num.v)))
             ELSE LET deleted_task == hamza_tasks[num.v]
                  IN  HamzaOutcome(
                          SubSeq(hamza_tasks, 1, num.v - 1)
                              \o SubSeq(hamza_tasks, num.v + 1, Len(hamza_tasks)),
                          PlainText(DeletedTaskText(deleted_task.description)))

\* the raise after the last branch
hamza_unknown_tool(name) ==
    HamzaOutcome(hamza_tasks, Fault("ValueError", "Unknown tool: {name}"))

\* the body of hamza_mcp.py's call_tool
hamza_call_tool_body(name, arguments) ==
    IF name = "get_hamza_info" THEN hamza_get_hamza_info
    ELSE IF name = "add_task" THEN hamza_add_task(arguments)
    ELSE IF name = "get_tasks" THEN hamza_get_tasks
    ELSE IF name = "update_task" THEN hamza_update_task(arguments)
    ELSE IF name = "delete_task" THEN hamza_delete_task(arguments)
    ELSE hamza_unknown_tool(name)

\* handler call_tool(name, arguments) of the hamza-tasks server
hamza_call_tool(name, arguments) ==
    /\ name = "add_task" => Len(hamza_tasks) < MaxTasks
    /\ LET out == hamza_call_tool_body(name, arguments)
       IN  /\ hamza_tasks' = out.tasks
           /\ hamza_result' = [op |-> "call_tool", name |-> name,
                               arguments |-> arguments, ret |-> out.ret]
           /\ hamza_pre' = hamza_tasks
    /\ UNCHANGED <<clock, pipe_vars, http_vars, loop_vars>>

\* the Tool entries hamza_mcp.py's list_tools returns
HamzaTools ==
    << [name |-> "get_hamza_info", required |-> << >>],
       [name |-> "add_task",       required |-> <<"task">>],
       [name |-> "get_tasks",      required |-> << >>],
       [name |-> "update_task",    required |-> <<"task_number", "new_description">>],
       [name |-> "delete_task",    required |-> <<"task_number">>] >>

\* handler list_tools() of the hamza-tasks server
hamza_list_tools ==
    /\ hamza_result' = [op |-> "list_tools",
                        ret |-> [kind |-> "list", tools |-> HamzaTools]]
    /\ hamza_pre' = hamza_tasks
    /\ UNCHANGED <<hamza_tasks, clock, pipe_vars, http_vars, loop_vars>>

\* ------------------------------------------------------------------------
\* Environment: time and the requests a client sends
\* ------------------------------------------------------------------------
\* time passes between two reads of datetime.now()
Tick ==
    /\ clock < MaxClock
    /\ clock' = clock + 1
    /\ UNCHANGED <<tasks, task_counter, result, pre, issued, deleted>>

TitleDoc == <<"D","o","c">>

TitleReview == <<"r","e","v">>

NoArguments == [k \in {} |-> EmptyStr]

\* arguments sent to create_task
CreateArguments ==
    { NoArguments,
      [title |-> EmptyStr],
      [title |-> TitleDoc, priority |-> "high"],
      [title |-> TitleReview, description |-> <<"d","o","c","s">>,
       priority |-> "urgent"] }

\* arguments sent to complete_task and delete_task
IdArguments ==
    { [task_id |-> IntVal(n)] : n \in 1..MaxCounter }
    \cup { [task_id |-> StrVal(<<"a","b","c">>)], NoArguments }

\* arguments sent to search_tasks
SearchArguments ==
    { [keyword |-> <<"D","O","C">>], [keyword |-> EmptyStr],
      [keyword |-> <<"x">>], NoArguments }

\* the call_tool requests
ToolCalls ==
    ({"create_task"} \X CreateArguments)
    \cup ({"complete_task", "delete_task"} \X IdArguments)
    \cup ({"search_tasks"} \X SearchArguments)
    \cup ({"bogus_tool", "get_tasks"}
          \X {NoArguments, [title |-> TitleDoc, priority |-> "high"],
              [task_id |-> IntVal(1)]})

\* the read_resource requests
Uris ==
    { AllUri }
    \cup { TaskUri(n) : n \in 1..MaxCounter }
    \cup { TaskScheme \o <<"a","b","c">>,
           TaskUri(1) \o <<"/","/","x">>,
           <<"f","i","l","e",":","/","/","1">> }

TaskTypeWork == <<"w","o","r","k">>

\* the get_prompt requests
PromptCalls ==
    ({"daily_summary"}
        \X { None, Some(NoArguments),
             Some([include_completed |-> "false"]),
             Some([include_completed |-> "true"]),
             Some([include_completed |-> "yes"]),
             Some([task_type |-> TaskTypeWork]) })
    \cup ({"task_priorities"} \X { None })
    \cup ({"create_task_wizard"}
        \X { None, Some(NoArguments),
             Some([task_type |-> TaskTypeWork]),
             Some([include_completed |-> "true"]) })
    \cup ({"bogus_prompt"} \X { None, Some([task_type |-> TaskTypeWork]) })

Init ==
    /\ tasks = EmptyDict
    /\ task_counter = 0
    /\ clock = 0
    /\ result = [op |-> "none"]
    /\ pre = [tasks |-> EmptyDict, task_counter |-> 0, clock |-> 0]
    /\ issued = << >>
    /\ deleted = {}
    /\ http_tasks = EmptyDict
    /\ http_task_counter = 0
    /\ http_result = [op |-> "none"]
    /\ conns = [c \in Conns |-> IdleConn]
    /\ running = 0
    /\ received = << >>
    /\ hamza_tasks = << >>
    /\ hamza_result = [op |-> "none"]
    /\ hamza_pre = << >>

\* the pipe binding alone: the HTTP process is not running
Next ==
    \/ \E c \in ToolCalls :
          call_tool(c[1], c[2]) /\ UNCHANGED <<http_vars, loop_vars, hamza_vars>>
    \/ list_tools /\ UNCHANGED <<http_vars, loop_vars, hamza_vars>>
    \/ list_resources /\ UNCHANGED <<http_vars, loop_vars, hamza_vars>>
    \/ \E uri \in Uris :
          read_resource(uri) /\ UNCHANGED <<http_vars, loop_vars, hamza_vars>>
    \/ list_prompts /\ UNCHANGED <<http_vars, loop_vars, hamza_vars>>
    \/ \E p \in PromptCalls :
          get_prompt(p[1], p[2]) /\ UNCHANGED <<http_vars, loop_vars, hamza_vars>>
    \/ Tick /\ UNCHANGED <<http_vars, loop_vars, hamza_vars>>

Spec == Init /\ [][Next]_vars

\* ------------------------------------------------------------------------
\* The "complete workflow" quick test of the client, with free interleaving
\* ------------------------------------------------------------------------
TitleWriteDocumentation == <<"W","r","i","t","e"," ","d","o","c","u","m","e","n","t","a","t","i","o","n">>

TitleReviewPullRequests == <<"R","e","v","i","e","w"," ","p","u","l","l"," ","r","e","q","u","e","s","t","s">>

KeywordDocumentation == <<"d","o","c","u","m","e","n","t","a","t","i","o","n">>

\* the requests of the workflow, with and without the descriptions it sends
WorkflowCalls ==
    ({"create_task"}
        \X { [title |-> TitleWriteDocumentation, priority |-> "high"],
             [title |-> TitleWriteDocumentation,
              description |-> <<"C","o","m","p","l","e","t","e"," ","A","P","I"," ","d","o","c","u","m","e","n","t","a","t","i","o","n">>,
              priority |-> "high"],
             [title |-> TitleReviewPullRequests, priority |-> "medium"],
             [title |-> TitleReviewPullRequests,
              description |-> <<"R","e","v","i","e","w"," ","p","e","n","d","i","n","g"," ","P","R","s">>,
              priority |-> "medium"] })
    \cup ({"complete_task", "delete_task"}
        \X { [task_id |-> IntVal(n)] : n \in 1..MaxCounter })
    \cup ({"search_tasks"} \X { [keyword |-> KeywordDocumentation] })

NextWorkflow ==
    \/ \E c \in WorkflowCalls :
          call_tool(c[1], c[2]) /\ UNCHANGED <<http_vars, loop_vars, hamza_vars>>
    \/ list_resources /\ UNCHANGED <<http_vars, loop_vars, hamza_vars>>
    \/ read_resource(AllUri) /\ UNCHANGED <<http_vars, loop_vars, hamza_vars>>
    \/ Tick /\ UNCHANGED <<http_vars, loop_vars, hamza_vars>>

\* ------------------------------------------------------------------------
\* The pipe binding with up to MaxOrder creations, asked to enumerate
\* ------------------------------------------------------------------------
OrderCalls ==
    ({"create_task"} \X {NoArguments, [title |-> TitleDoc, priority |-> "high"]})
    \cup ({"complete_task", "delete_task"}
          \X { [task_id |-> IntVal(n)] : n \in 1..MaxOrder })
    \cup ({"search_tasks"}
          \X { [keyword |-> EmptyStr], [keyword |-> <<"D","O","C">>] })

OrderPrompts ==
    ({"daily_summary"} \X { None, Some([include_completed |-> "false"]) })
    \cup ({"task_priorities"} \X { None })

NextOrder ==
    \/ \E c \in OrderCalls :
          /\ call_tool_upto(MaxOrder, c[1], c[2])
          /\ UNCHANGED <<http_vars, loop_vars, hamza_vars>>
    \/ list_resources /\ UNCHANGED <<http_vars, loop_vars, hamza_vars>>
    \/ read_resource(AllUri) /\ UNCHANGED <<http_vars, loop_vars, hamza_vars>>
    \/ \E p \in OrderPrompts :
          get_prompt(p[1], p[2]) /\ UNCHANGED <<http_vars, loop_vars, hamza_vars>>

SpecOrder == Init /\ [][NextOrder]_vars

\* ------------------------------------------------------------------------
\* The hamza-tasks server and its requests
\* ------------------------------------------------------------------------
\* task_number values: integers around the list's positions, and a string
TaskNumbers ==
    { IntVal(n) : n \in (0 - 1)..(MaxTasks + 1) } \cup { StrVal(<<"1">>) }

HamzaDescriptions == { <<"a">>, <<"b">> }

NewDescription == <<"c">>

HamzaCalls ==
    ({"get_hamza_info", "get_tasks", "bogus_tool"} \X {NoArguments})
    \cup ({"add_task"}
          \X ({ [task |-> d] : d \in HamzaDescriptions } \cup {NoArguments}))
    \cup ({"update_task"}
          \X ({ [task_number |-> n, new_description |-> NewDescription] :
                   n \in TaskNumbers }
              \cup { [task_number |-> IntVal(1)], NoArguments }))
    \cup ({"delete_task"}
          \X ({ [task_number |-> n] : n \in TaskNumbers } \cup {NoArguments}))

NextHamza ==
    \/ \E c \in HamzaCalls : hamza_call_tool(c[1], c[2])
    \/ hamza_list_tools
    \/ Tick /\ UNCHANGED <<http_vars, loop_vars, hamza_vars>>

SpecHamza == Init /\ [][NextHamza]_vars

\* ------------------------------------------------------------------------
\* Both bindings, started from empty stores and sent the same requests
\* ------------------------------------------------------------------------
NextBindings ==
    \/ \E c \in ToolCalls :
          /\ call_tool(c[1], c[2])
          /\ http_call_tool(c[1], c[2])
          /\ UNCHANGED <<loop_vars, hamza_vars>>
    \/ list_resources /\ http_list_resources /\ UNCHANGED <<loop_vars, hamza_vars>>
    \/ \E uri \in Uris :
          /\ read_resource(uri)
          /\ http_read_resource(uri)
          /\ UNCHANGED <<loop_vars, hamza_vars>>
    \/ list_prompts /\ http_list_prompts /\ UNCHANGED <<loop_vars, hamza_vars>>
    \/ \E p \in PromptCalls :
          /\ get_prompt(p[1], p[2])
          /\ http_get_prompt(p[1], p[2])
          /\ UNCHANGED <<loop_vars, hamza_vars>>
    \/ Tick /\ UNCHANGED <<http_vars, loop_vars, hamza_vars>>

SpecBindings == Init /\ [][NextBindings]_vars

\* ------------------------------------------------------------------------
\* The HTTP binding with NumConns connections sending requests at any time
\* ------------------------------------------------------------------------
LoopRequests ==
    { [op |-> "call_tool", name |-> "create_task", arguments |-> a] :
        a \in {NoArguments, [title |-> TitleDoc, priority |-> "high"]} }
    \cup { [op |-> "call_tool", name |-> n, arguments |-> a] :
             n \in {"complete_task", "delete_task"}, a \in IdArguments }
    \cup { [op |-> "read_resource", uri |-> AllUri] }

NextLoop ==
    \/ \E c \in Conns : \E request \in LoopRequests :
          handle_messages(c, request)
    \/ \E c \in Conns : create_170(c)
    \/ \E c \in Conns : create_171(c)
    \/ \E c \in Conns : create_173(c)
    \/ \E c \in Conns : create_182(c)
    \/ \E c \in Conns : create_184(c)
    \/ \E c \in Conns : complete_192(c)
    \/ \E c \in Conns : complete_194(c)
    \/ \E c \in Conns : complete_197(c)
    \/ \E c \in Conns : complete_198(c)
    \/ \E c \in Conns : complete_200(c)
    \/ \E c \in Conns : delete_208(c)
    \/ \E c \in Conns : delete_210(c)
    \/ \E c \in Conns : delete_213(c)
    \/ \E c \in Conns : delete_215(c)
    \/ \E c \in Conns : loop_read_resource(c)
    \/ Tick /\ UNCHANGED <<http_vars, loop_vars, hamza_vars>>

SpecLoop == Init /\ [][NextLoop]_vars

SpecWorkflow == Init /\ [][NextWorkflow]_vars

TypeOK ==
    /\ task_counter \in 0..MaxCounter
    /\ clock \in 0..MaxClock
    /\ Len(tasks) <= MaxCounter

\* ------------------------------------------------------------------------
\* Vocabulary of the properties
\* ------------------------------------------------------------------------
KnownTools == {"create_task", "complete_task", "delete_task", "search_tasks"}

Range(f) == {f[i] : i \in DOMAIN f}

\* the last request was call_tool(name, ...)
Called(name) == result.op = "call_tool" /\ result.name = name

\* the last request was call_tool with a task_id argument that int() accepts
CalledWithId ==
    /\ result.op = "call_tool"
    /\ "task_id" \in DOMAIN result.arguments
    /\ PyInt(result.arguments["task_id"]).ok

\* that id
CalledId == PyInt(result.arguments["task_id"]).val

\* the last request ended in an exception leaving the handler
Faulted == result.op # "none" /\ result.ret.kind = "fault"

\* fault classes of the specification, in terms of what the code raises
IsUnknownTool(ret) ==
    ret = Fault("ValueError", "Unknown tool: {name}")

IsInvalidArgument(ret) ==
    /\ ret.kind = "fault"
    /\ \/ ret.exc = "KeyError"
       \/ ret = Fault("ValueError", "invalid literal for int()")
       \/ ret = Fault("ValueError", "Unknown resource URI: {uri}")

IsNotFound(ret) ==
    ret = Fault("ValueError", "Task {task_id} not found")

StoreUnchanged ==
    /\ tasks = pre.tasks
    /\ task_counter = pre.task_counter

NotFoundWords == <<"n","o","t"," ","f","o","u","n","d">>

\* ------------------------------------------------------------------------
\* Properties
\* ------------------------------------------------------------------------
\* C1: the ids given to successive created tasks are strictly increasing
\* integers starting at 1, and a deleted id is never given to a later task.
C1_IdsIncreaseFromOne ==
    /\ issued # << >> => issued[1] = 1
    /\ \A i, j \in DOMAIN issued : i < j => issued[i] < issued[j]
    /\ (Called("create_task") /\ result.ret.kind = "text")
          => result.ret.json.id \notin deleted

\* C2: a call_tool call that ends in a fault leaves the task mapping and the
\* id counter exactly as they were before the call.
C2_FaultLeavesStoreUnchanged ==
    (result.op = "call_tool" /\ Faulted) => StoreUnchanged

\* C3: create_task with a missing or empty title fails with InvalidArgument
\* and stores nothing, so every stored task has a non-empty title.
C3_EmptyTitleRejected ==
    /\ (Called("create_task")
        /\ ArgGet(result.arguments, "title", EmptyStr) = EmptyStr)
          => (IsInvalidArgument(result.ret) /\ tasks = pre.tasks)
    /\ \A i \in DOMAIN tasks : tasks[i].val.title # EmptyStr

\* C4: for every task in the store, completed_at is present if and only if
\* completed is true.
C4_CompletedAtIffCompleted ==
    \A i \in DOMAIN tasks :
        ("completed_at" \in DOMAIN tasks[i].val) <=> tasks[i].val.completed

C4_Witness ==
    /\ \E i \in DOMAIN tasks : tasks[i].val.completed
    /\ \E i \in DOMAIN tasks : ~tasks[i].val.completed

\* C5: complete_task or delete_task with a task_id that is not in the store
\* returns a text containing "not found", raises nothing, and leaves the
\* task mapping and the id counter unchanged.
C5_AbsentIdIsSoftNotFound ==
    (/\ Called("complete_task") \/ Called("delete_task")
     /\ CalledWithId
     /\ CalledId \notin DictKeys(pre.tasks))
        => /\ result.ret.kind = "text"
           /\ Contains(result.ret.headline, NotFoundWords)
           /\ StoreUnchanged

C5_Witness ==
    /\ Called("complete_task")
    /\ CalledWithId
    /\ CalledId \in deleted
    /\ result.ret = PlainText(NotFoundText(CalledId))
    /\ tasks # EmptyDict

\* C6: call_tool with a name other than the four tools ends in an
\* UnknownTool fault, whatever the arguments and the store.
C6_UnknownToolFaults ==
    (result.op = "call_tool" /\ result.name \notin KnownTools)
        => IsUnknownTool(result.ret)

C6_Witness ==
    /\ Called("bogus_tool")
    /\ DOMAIN result.arguments # {}
    /\ tasks # EmptyDict
    /\ Faulted

\* C7: once delete_task(id) has succeeded, read_resource("task://<id>")
\* reports NotFound as a fault and list_resources() does not list
\* task://<id>, whatever was done in between.
C7_DeletedStaysGone ==
    \A id \in deleted :
        /\ (result.op = "read_resource" /\ result.uri = TaskUri(id))
              => IsNotFound(result.ret)
        /\ result.op = "list_resources"
              => \A i \in DOMAIN result.ret.resources :
                     result.ret.resources[i].uri # TaskUri(id)

C7_Witness ==
    \E id \in deleted :
        /\ result.op = "read_resource"
        /\ result.uri = TaskUri(id)
        /\ \E i \in DOMAIN issued : issued[i] > id
        /\ IsNotFound(result.ret)

\* C8: complete_task(id) on an existing task succeeds whether or not the task
\* is already completed; afterwards the task is completed and carries the
\* completed_at of this call, and its id and title are as before.
C8_CompleteSetsAndRefreshes ==
    (/\ Called("complete_task")
     /\ CalledWithId
     /\ CalledId \in DictKeys(pre.tasks))
        => /\ result.ret.kind = "text"
           /\ result.ret.headline = CompletedText(CalledId)
           /\ CalledId \in DictKeys(tasks)
           /\ LET old == DictGet(pre.tasks, CalledId)
                  new == DictGet(tasks, CalledId)
              IN  /\ new.completed = TRUE
                  /\ "completed_at" \in DOMAIN new
                  /\ new.completed_at = pre.clock
                  /\ new.id = old.id
                  /\ new.title = old.title
                  /\ result.ret.json = new

C8_Witness ==
    /\ Called("complete_task")
    /\ CalledWithId
    /\ CalledId \in DictKeys(pre.tasks)
    /\ LET old == DictGet(pre.tasks, CalledId)
           new == DictGet(tasks, CalledId)
       IN  /\ old.completed
           /\ new.completed_at > old.completed_at

\* C9: list_resources() returns exactly task://all plus one task://<id> for
\* each id in the store: 1 + (number of stored tasks) entries, reflecting
\* every create and delete performed before the call.
C9_ListingMatchesStore ==
    result.op = "list_resources"
        => LET listed == result.ret.resources
           IN  /\ Len(listed) = 1 + Cardinality(DictKeys(tasks))
               /\ {listed[i].uri : i \in DOMAIN listed}
                     = {AllUri} \cup {TaskUri(id) : id \in DictKeys(tasks)}
               /\ DictKeys(tasks) = Range(issued) \ deleted

C9_Witness ==
    /\ result.op = "list_resources"
    /\ deleted # {}
    /\ tasks # EmptyDict
    /\ Len(result.ret.resources) = 2

\* C10: read_resource("task://<id>") with a numeric id returns the stored
\* record when the id is in the store and ends in a NotFound fault when it is
\* not; the store is unchanged in both cases.
C10_ReadTaskById ==
    \A id \in 1..MaxCounter :
        (result.op = "read_resource" /\ result.uri = TaskUri(id))
            => /\ id \in DictKeys(tasks)
                    => result.ret = JsonText(DictGet(tasks, id))
               /\ id \notin DictKeys(tasks) => IsNotFound(result.ret)
               /\ StoreUnchanged

C10_Witness ==
    \E id \in DictKeys(tasks) :
        /\ result.op = "read_resource"
        /\ result.uri = TaskUri(id)
        /\ result.ret.kind = "text"
        /\ result.ret.json.id = id
        /\ result.ret.json.completed


\* "task://" followed by an integer and nothing else
IsTaskIdUri(uri) ==
    /\ StartsWith(uri, TaskScheme)
    /\ LET rest   == SubSeq(uri, Len(TaskScheme) + 1, Len(uri))
           digits == IF rest # EmptyStr /\ rest[1] = "-" THEN Tail(rest) ELSE rest
       IN  /\ digits # EmptyStr
           /\ \A i \in DOMAIN digits : IsDigit(digits[i])

\* C11: read_resource(uri) fails with InvalidArgument for every uri that is
\* neither "task://all" nor exactly "task://" followed by an integer; no such
\* uri returns a task's data.
C11_MalformedUriRejected ==
    (/\ result.op = "read_resource"
     /\ result.uri # AllUri
     /\ ~IsTaskIdUri(result.uri))
        => IsInvalidArgument(result.ret)

\* C12: read_resource("task://all") returns an object whose tasks field is
\* the full current mapping (keys as decimal text) and whose total_count is
\* the number of tasks in the store: creates minus successful deletes.
C12_AllReportsStore ==
    (result.op = "read_resource" /\ result.uri = AllUri)
        => /\ result.ret.kind = "text"
           /\ LET all == result.ret.json
              IN  /\ Len(all.tasks) = Len(tasks)
                  /\ \A i \in DOMAIN tasks :
                        /\ all.tasks[i].key = IntToStr(tasks[i].key)
                        /\ all.tasks[i].val = tasks[i].val
                  /\ all.total_count = Cardinality(DictKeys(tasks))
                  /\ all.total_count = Len(issued) - Cardinality(deleted)

C12_Witness ==
    /\ result.op = "read_resource"
    /\ result.uri = AllUri
    /\ deleted # {}
    /\ result.ret.json.total_count = 1

\* text contains keyword when upper and lower case letters are identified
ContainsIgnoringCase(text, keyword) ==
    \E offset \in 0..(Len(text) - Len(keyword)) :
        \A j \in DOMAIN keyword :
            LowerChar(text[offset + j]) = LowerChar(keyword[j])

\* C13: search_tasks(keyword) returns exactly the stored tasks whose title or
\* description contains the keyword case-insensitively, in store insertion
\* order, with the reported count equal to the number of returned tasks; the
\* empty keyword returns all tasks.
C13_SearchIsCaseInsensitiveFilter ==
    (Called("search_tasks") /\ "keyword" \in DOMAIN result.arguments)
        => LET keyword == result.arguments["keyword"]
               wanted  == SelectSeq(DictValues(tasks),
                              LAMBDA task :
                                  \/ ContainsIgnoringCase(task.title, keyword)
                                  \/ ContainsIgnoringCase(task.description, keyword))
           IN  /\ result.ret.kind = "text"
               /\ result.ret.json = wanted
               /\ result.ret.headline = FoundText(Len(result.ret.json), Lower(keyword))
               /\ keyword = EmptyStr => result.ret.json = DictValues(tasks)

C13_Witness ==
    /\ Called("search_tasks")
    /\ result.arguments = [keyword |-> <<"D","O","C">>]
    /\ Len(tasks) = 2
    /\ Len(result.ret.json) = 1
    /\ result.ret.json[1].title = TitleDoc


\* the last request was complete_task or delete_task called on id
CompletedOrDeleted(id) ==
    /\ Called("complete_task") \/ Called("delete_task")
    /\ CalledWithId
    /\ CalledId = id

\* C14: after create_task with a title and a priority, reading task://<id>
\* for the id just assigned returns a record with that title and priority,
\* completed == false and no completed_at key, and it keeps doing so until
\* complete_task or delete_task is called on that id.
C14_CreateReadRoundTrip ==
    /\ (/\ Called("create_task")
        /\ {"title", "priority"} \subseteq DOMAIN result.arguments)
          => LET read == read_resource_body(TaskUri(result.ret.json.id))
             IN  /\ read.kind = "text"
                 /\ read.json.title = result.arguments["title"]
                 /\ read.json.priority = result.arguments["priority"]
                 /\ read.json.completed = FALSE
                 /\ "completed_at" \notin DOMAIN read.json
    /\ \A id \in DictKeys(pre.tasks) :
          (~DictGet(pre.tasks, id).completed /\ ~CompletedOrDeleted(id))
              => read_resource_body(TaskUri(id)) = JsonText(DictGet(pre.tasks, id))

C14_Witness ==
    \E id \in DictKeys(tasks) :
        /\ result.op = "read_resource"
        /\ result.uri = TaskUri(id)
        /\ result.ret.kind = "text"
        /\ result.ret.json.title = TitleDoc
        /\ result.ret.json.priority = "high"
        /\ result.ret.json.completed = FALSE
        /\ "completed_at" \notin DOMAIN result.ret.json
        /\ clock > result.ret.json.created_at
        /\ Len(tasks) = 2


\* tasks A and B were created, in this order, from the empty store
WorkflowStore ==
    /\ issued = <<1, 2>>
    /\ deleted = {}
    /\ DictKeys(tasks) = {1, 2}
    /\ DictGet(tasks, 1).title = TitleWriteDocumentation
    /\ DictGet(tasks, 1).priority = "high"
    /\ DictGet(tasks, 2).title = TitleReviewPullRequests
    /\ DictGet(tasks, 2).priority = "medium"

\* C15: with task A ("Write documentation", high) and task B ("Review pull
\* requests", medium) created from an empty store, list_resources() returns
\* the 3 entries task://all, task://1, task://2; once task 1 is completed,
\* search_tasks("documentation") returns exactly one result, with
\* completed == true; read_resource("task://all") reports total_count == 2.
C15_CompleteWorkflow ==
    WorkflowStore
        => /\ result.op = "list_resources"
                => [i \in DOMAIN result.ret.resources |-> result.ret.resources[i].uri]
                       = <<AllUri, TaskUri(1), TaskUri(2)>>
           /\ (/\ Called("search_tasks")
               /\ result.arguments = [keyword |-> KeywordDocumentation]
               /\ DictGet(tasks, 1).completed)
                => /\ Len(result.ret.json) = 1
                   /\ result.ret.json[1].completed = TRUE
                   /\ result.ret.json[1].id = 1
           /\ (result.op = "read_resource" /\ result.uri = AllUri)
                => result.ret.json.total_count = 2

C15_Witness ==
    /\ WorkflowStore
    /\ Called("search_tasks")
    /\ DictGet(tasks, 1).completed
    /\ ~DictGet(tasks, 2).completed
    /\ Len(result.ret.json) = 1
    /\ result.ret.json[1].completed


KnownPrompts == {"daily_summary", "task_priorities", "create_task_wizard"}

\* the last request was get_prompt(name, ...)
Prompted(name) == result.op = "get_prompt" /\ result.name = name

\* the include_completed value of the last get_prompt request, if it has one
HasIncludeCompleted ==
    /\ ~result.arguments.is_none
    /\ "include_completed" \in DOMAIN result.arguments.value

GivenIncludeCompleted == result.arguments.value["include_completed"]

\* the tasks of the store that are not completed, in store order
OpenTasks == SelectSeq(DictValues(tasks), LAMBDA task : ~task.completed)

\* the task list embedded in a rendered prompt
EmbeddedTasks == result.ret.messages[1].text.json

\* C16 as stated: daily_summary leaves completed tasks out only when
\* include_completed is exactly "false", and includes them when the argument
\* is absent or has any other value.
C16_OnlyFalseExcludes ==
    Prompted("daily_summary")
        => EmbeddedTasks =
              IF HasIncludeCompleted /\ GivenIncludeCompleted = "false"
              THEN OpenTasks
              ELSE DictValues(tasks)

\* C16 amended: daily_summary includes completed tasks only when
\* include_completed is absent (or arguments is absent or empty) or is exactly
\* "true"; every other value, "false" as well as "yes", leaves them out.
C16_OnlyTrueIncludes ==
    Prompted("daily_summary")
        => /\ result.ret.kind = "prompt"
           /\ EmbeddedTasks =
                 IF HasIncludeCompleted /\ GivenIncludeCompleted # "true"
                 THEN OpenTasks
                 ELSE DictValues(tasks)
           /\ result.ret.messages[1].text.total = Len(EmbeddedTasks)

C16_Witness ==
    /\ Prompted("daily_summary")
    /\ HasIncludeCompleted
    /\ GivenIncludeCompleted = "yes"
    /\ \E i \in DOMAIN tasks : tasks[i].val.completed
    /\ EmbeddedTasks = OpenTasks
    /\ Len(EmbeddedTasks) = 1

C18_UnknownPromptFaults ==
    (result.op = "get_prompt" /\ result.name \notin KnownPrompts)
        => /\ result.ret = Fault("ValueError", "Unknown prompt: {name}")
           /\ StoreUnchanged

C18_Witness ==
    /\ Prompted("bogus_prompt")
    /\ ~result.arguments.is_none
    /\ Faulted
    /\ tasks # EmptyDict


\* C19: the pipe binding and the HTTP binding, started from empty stores and
\* given the same requests, return the same result or the same fault at
\* every step, and their stores and counters stay equal.
C19_BindingsAgree ==
    /\ http_result = result
    /\ http_tasks = tasks
    /\ http_task_counter = task_counter

C19_Witness ==
    /\ http_result = result
    /\ Called("delete_task")
    /\ result.ret.kind = "text"
    /\ "json" \in DOMAIN result.ret
    /\ http_tasks # EmptyDict
    /\ \E i \in DOMAIN http_tasks : http_tasks[i].val.completed


\* the completed/completed_at invariant on the HTTP binding's store
HttpStoreWellFormed ==
    \A i \in DOMAIN http_tasks :
        ("completed_at" \in DOMAIN http_tasks[i].val)
            <=> http_tasks[i].val.completed

\* C20: with several connections sending requests to the HTTP binding at the
\* same time, a handler that has begun create_task, complete_task or
\* delete_task finishes before any other handler runs a statement; the ids
\* returned by create_task are pairwise distinct; and in every state where a
\* request can start to run, completed_at is present exactly on the completed
\* tasks.
C20_MutationsAreIndivisible ==
    /\ \A c \in Conns : conns[c].pc \notin {"idle", "ready"} => running = c
    /\ \A i, j \in DOMAIN received : i # j => received[i] # received[j]
    /\ \A c \in Conns :
          (conns[c].pc = "ready" /\ CanRun(c)) => HttpStoreWellFormed

\* two create_task calls have returned, and one connection's complete_task
\* is between its two writes while another connection's request is waiting
C20_Witness ==
    /\ Len(received) >= 2
    /\ ~HttpStoreWellFormed
    /\ \E c, d \in Conns :
          /\ c # d
          /\ conns[c].pc = "complete_198"
          /\ conns[d].pc = "ready"


\* the priority enumeration declared in create_task's input schema
Priorities == {"low", "medium", "high"}

\* C21: create_task with a priority that is present but not low, medium or
\* high fails with InvalidArgument and stores no task; every stored task has
\* a priority in {low, medium, high}, and medium when none was given.
C21_PriorityIsValidated ==
    /\ (/\ Called("create_task")
        /\ "priority" \in DOMAIN result.arguments
        /\ result.arguments["priority"] \notin Priorities)
          => /\ IsInvalidArgument(result.ret)
             /\ tasks = pre.tasks
    /\ \A i \in DOMAIN tasks : tasks[i].val.priority \in Priorities
    /\ (/\ Called("create_task")
        /\ result.ret.kind = "text"
        /\ "priority" \notin DOMAIN result.arguments)
          => result.ret.json.priority = "medium"


\* the last request was one of the read-only operations
ReadOnlyRequest ==
    \/ result.op \in {"list_tools", "list_resources", "read_resource",
                      "list_prompts", "get_prompt"}
    \/ Called("search_tasks")

\* C22: list_tools, list_resources, read_resource, list_prompts, get_prompt
\* and the search_tasks tool leave the task mapping and the id counter as
\* they were, whether they return a result or a fault.
C22_ReadOnlyOperations ==
    ReadOnlyRequest => StoreUnchanged

\* a search that found a task, with a completed task in the store
C22_Witness ==
    /\ Called("search_tasks")
    /\ result.ret.kind = "text"
    /\ Len(result.ret.json) >= 1
    /\ \E i \in DOMAIN tasks : tasks[i].val.completed
    /\ StoreUnchanged


\* the fields of a task that are fixed at creation
FixedFields == {"id", "title", "description", "priority", "created_at"}

\* the ids in the store both before and after the last request
Surviving == DictKeys(pre.tasks) \cap DictKeys(tasks)

\* C23: while a task stays in the store its id, title, description, priority
\* and created_at keep the values given at creation; a request changes an
\* existing task only if it is complete_task addressed to that task, and then
\* only completed and completed_at change.
C23_FixedFieldsNeverChange ==
    result.op # "none" =>
        \A k \in Surviving :
            LET before == DictGet(pre.tasks, k)
                after  == DictGet(tasks, k)
            IN  /\ \A f \in FixedFields : after[f] = before[f]
                /\ after # before =>
                      /\ Called("complete_task")
                      /\ CalledWithId
                      /\ CalledId = k
                      /\ DOMAIN after = DOMAIN before \cup {"completed_at"}

\* complete_task, at a later time than the creation, changed the addressed
\* task and left another task in the store as it was
C23_Witness ==
    /\ Called("complete_task")
    /\ CalledWithId
    /\ CalledId \in Surviving
    /\ DictGet(tasks, CalledId) # DictGet(pre.tasks, CalledId)
    /\ DictGet(tasks, CalledId).created_at < clock
    /\ \E k \in Surviving :
          k # CalledId /\ DictGet(tasks, k) = DictGet(pre.tasks, k)


\* what the last request did to the task mapping
Added == DictKeys(tasks) \ DictKeys(pre.tasks)

Removed == DictKeys(pre.tasks) \ DictKeys(tasks)

Modified == {k \in Surviving : DictGet(tasks, k) # DictGet(pre.tasks, k)}

\* C24: a call_tool call adds exactly one task, or removes exactly one, or
\* modifies exactly one, or leaves the task mapping as it was; it moves the
\* id counter by at most 1, and only when the tool is create_task.
C24_AtMostOneTransition ==
    result.op = "call_tool" =>
        /\ Cardinality(Added) + Cardinality(Removed) + Cardinality(Modified) <= 1
        /\ task_counter - pre.task_counter \in {0, 1}
        /\ task_counter # pre.task_counter => Called("create_task")

\* delete_task removed one task of a store that held at least two
C24_Witness ==
    /\ Called("delete_task")
    /\ Cardinality(Removed) = 1
    /\ Added = {}
    /\ Modified = {}
    /\ tasks # EmptyDict


\* C25: no request lowers the id counter, deletions included, and every id
\* in the store is at least 1 and at most the counter.
C25_CounterBoundsIds ==
    /\ task_counter >= pre.task_counter
    /\ \A k \in DictKeys(tasks) : 1 <= k /\ k <= task_counter

\* a task was deleted, the counter kept its value, and a task remains
C25_Witness ==
    /\ Called("delete_task")
    /\ Removed # {}
    /\ task_counter = pre.task_counter
    /\ task_counter >= 2
    /\ tasks # EmptyDict


\* the ids of the store, in store order
StoreIds == [i \in DOMAIN tasks |-> tasks[i].key]

\* a sequence of integers that goes up strictly
Increasing(s) == \A i, j \in DOMAIN s : i < j => s[i] < s[j]

\* the tasks a full listing has to show, by operation
ListsWholeStore ==
    \/ result.op = "list_resources"
    \/ result.op = "read_resource"
    \/ Prompted("task_priorities")
    \/ Prompted("daily_summary") /\ ~HasIncludeCompleted
    \/ Called("search_tasks") /\ result.arguments["keyword"] = EmptyStr

\* the last request was one of the enumerating operations
Enumerated ==
    \/ result.op \in {"list_resources", "read_resource"}
    \/ Prompted("task_priorities")
    \/ Prompted("daily_summary")
    \/ Called("search_tasks")

\* the ids the last enumerating request listed, in the order it listed them
ListedIds ==
    IF result.op = "list_resources"
    THEN [i \in 1..(Len(result.ret.resources) - 1) |->
             CHOOSE k \in 1..MaxOrder + 1 :
                 result.ret.resources[i + 1].uri = TaskUri(k)]
    ELSE IF result.op = "read_resource"
    THEN [i \in DOMAIN result.ret.json.tasks |->
             result.ret.json.tasks[i].val.id]
    ELSE IF result.op = "get_prompt"
    THEN [i \in DOMAIN EmbeddedTasks |-> EmbeddedTasks[i].id]
    ELSE [i \in DOMAIN result.ret.json |-> result.ret.json[i].id]

\* position of id k in dict d
Position(d, k) == DictIndex(d, k)

\* C26: the store enumerates in creation order, which is increasing id;
\* list_resources, search_tasks, daily_summary, task_priorities and task://all
\* list the tasks in that order; and a request leaves the tasks that survive
\* it in the relative order they had before.
C26_EnumerationIsInsertionOrder ==
    /\ Increasing(StoreIds)
    /\ Enumerated =>
          /\ Increasing(ListedIds)
          /\ Range(ListedIds) \subseteq DictKeys(tasks)
          /\ ListsWholeStore => ListedIds = StoreIds
    /\ \A a, b \in Surviving :
          Position(pre.tasks, a) < Position(pre.tasks, b)
              => Position(tasks, a) < Position(tasks, b)

\* the first of three tasks was deleted, leaving two
C26_Witness ==
    /\ Called("delete_task")
    /\ Removed = {1}
    /\ Cardinality(Surviving) >= 2
    /\ \E i \in DOMAIN tasks : tasks[i].val.completed


\* C27: in both servers every key k of the task mapping holds a record whose
\* id is k, and every uri task://<k> that list_resources lists reads back
\* the record with id k.
C27_KeyEqualsId ==
    /\ \A i \in DOMAIN tasks :
          /\ tasks[i].val.id = tasks[i].key
          /\ read_resource_body(TaskUri(tasks[i].key)).json.id = tasks[i].key
    /\ \A i \in DOMAIN http_tasks :
          /\ http_tasks[i].val.id = http_tasks[i].key
          /\ http_read_resource_body(TaskUri(http_tasks[i].key)).json.id
                = http_tasks[i].key
    /\ result.op = "list_resources" =>
          \A r \in Range(Tail(result.ret.resources)) :
              \E k \in DictKeys(tasks) :
                  /\ r.uri = TaskUri(k)
                  /\ read_resource_body(r.uri).json.id = k

\* list_resources listed two tasks, one of them completed, in both servers
C27_Witness ==
    /\ result.op = "list_resources"
    /\ Len(result.ret.resources) >= 3
    /\ \E i \in DOMAIN tasks : tasks[i].val.completed
    /\ http_tasks = tasks
    /\ http_result = result


\* the last request to the hamza-tasks server was call_tool(name, ...) with
\* an integer task_number
HamzaCalledWithNumber(name) ==
    /\ hamza_result.op = "call_tool"
    /\ hamza_result.name = name
    /\ "task_number" \in DOMAIN hamza_result.arguments
    /\ hamza_result.arguments["task_number"].type = "int"

\* that task_number
HamzaNumber == hamza_result.arguments["task_number"].v

\* C28: in the hamza-tasks server update_task and delete_task with a
\* task_number outside 1..len(tasks), 0 and negatives included, return a "not
\* found" text and leave the list as it was; delete_task with n in range
\* removes the n-th entry, keeps the others in order and moves every later
\* task down by one; update_task with n in range changes nothing but the
\* description of the n-th entry.
C28_PositionsAreOneBased ==
    /\ \A name \in {"update_task", "delete_task"} :
          (HamzaCalledWithNumber(name) /\ HamzaNumber \notin 1..Len(hamza_pre))
              => /\ hamza_result.ret.kind = "text"
                 /\ Contains(hamza_result.ret.headline, NotFoundWords)
                 /\ hamza_tasks = hamza_pre
    /\ (HamzaCalledWithNumber("delete_task") /\ HamzaNumber \in 1..Len(hamza_pre))
          => /\ Len(hamza_tasks) = Len(hamza_pre) - 1
             /\ \A i \in DOMAIN hamza_tasks :
                   hamza_tasks[i] = IF i < HamzaNumber
                                    THEN hamza_pre[i]
                                    ELSE hamza_pre[i + 1]
    /\ (HamzaCalledWithNumber("update_task") /\ HamzaNumber \in 1..Len(hamza_pre))
          => /\ Len(hamza_tasks) = Len(hamza_pre)
             /\ \A i \in DOMAIN hamza_tasks :
                   /\ i # HamzaNumber => hamza_tasks[i] = hamza_pre[i]
                   /\ hamza_tasks[i].created = hamza_pre[i].created
             /\ hamza_result.ret.kind = "text" =>
                   hamza_tasks[HamzaNumber].description
                       = hamza_result.arguments["new_description"]

\* delete_task took the middle one of three tasks that differ
C28_Witness ==
    /\ HamzaCalledWithNumber("delete_task")
    /\ HamzaNumber = 2
    /\ Len(hamza_pre) = 3
    /\ hamza_pre[1] # hamza_pre[2]
    /\ hamza_pre[2] # hamza_pre[3]
    /\ \E i \in DOMAIN hamza_pre : hamza_pre[i].description = NewDescription
    /\ hamza_tasks = <<hamza_pre[1], hamza_pre[3]>>

====
